---- MODULE Spec2Model ----
(***************************************************************************)
(* Model of client-part2/visualize_throughput.py: the script reads         *)
(* throughput.csv, plots the series with an average overlay line, saves    *)
(* throughput-chart.png and reports the outcome on the console.            *)
(*                                                                         *)
(* The file system (throughput.csv, throughput-chart.png), the pyplot     *)
(* current figure, the console and the pending exception are the state;   *)
(* every statement of the script that can change them is one action.      *)
(***************************************************************************)
EXTENDS Integers, Sequences, FiniteSets, TLC

VARIABLES
  csv,             \* throughput.csv on disk: [kind, cols, rows]
  out0,            \* throughput-chart.png before the run: "absent" | "old"
  out,             \* throughput-chart.png now: "absent" | "old" | "new" | "partial"
  pc,              \* the statement the script executes next
  df,              \* the DataFrame read_csv returned: [cols, rows]
  fig,             \* pyplot's current figure: "none" | "open" | "closed"
  avg_throughput,  \* df[...].mean(): [nan, num, den], num/den in lowest terms
  label,           \* label of the axhline: [prefix, nan, value, suffix]
  console,         \* the lines printed so far
  exc,             \* the exception in flight, NoExc when none
  failed,          \* the step that raised: "none" | "load" | "plot" | "save"
  unhandled        \* an exception left the entry point uncaught

vars == <<csv, out0, out, pc, df, fig, avg_throughput, label, console, exc,
          failed, unhandled>>

----------------------------------------------------------------------------
(* Bounds of the explored inputs *)

MaxRows == 3
MaxVal == 2

\* messages_per_10_seconds counts tried: the small ones and the spec's example
Counts == (0..MaxVal) \cup {100, 200, 300}

Columns == {"time_seconds", "messages_per_10_seconds", "extra"}
Required == {"time_seconds", "messages_per_10_seconds"}

\* rows of a file with columns c, in file order; the client writes one
\* bucket per 10 seconds
RowsOf(ms, c) ==
  [i \in 1..Len(ms) |->
     [n \in c |-> CASE n = "time_seconds" -> 10 * (i - 1)
                   [] n = "messages_per_10_seconds" -> ms[i]
                   [] OTHER -> 0]]

CountSeqs == UNION {[1..n -> Counts] : n \in 0..MaxRows}

\* throughput.csv as the script can find it; the rows of a file matter only
\* when it has the columns the script reads, so the others get at most one row
CsvFiles ==
  {[kind |-> k, cols |-> {}, rows |-> <<>>] :
       k \in {"absent", "unreadable", "empty", "malformed"}}
  \cup
  {[kind |-> "parsed", cols |-> c, rows |-> RowsOf(ms, c)] :
       c \in {d \in SUBSET Columns : Required \subseteq d}, ms \in CountSeqs}
  \cup
  {[kind |-> "parsed", cols |-> c, rows |-> RowsOf(ms, c)] :
       c \in {d \in SUBSET Columns : ~(Required \subseteq d)},
       ms \in {m \in CountSeqs : Len(m) <= 1}}

----------------------------------------------------------------------------
(* Exceptions *)

NoExc == [type |-> "None", str |-> ""]

\* base class of each exception class the script can meet
Base(t) ==
  CASE t = "FileNotFoundError" -> "OSError"
    [] t = "PermissionError"   -> "OSError"
    [] t = "OSError"           -> "Exception"
    [] t = "KeyError"          -> "LookupError"
    [] t = "LookupError"       -> "Exception"
    [] t = "EmptyDataError"    -> "ValueError"
    [] t = "ParserError"       -> "ValueError"
    [] t = "ValueError"        -> "Exception"
    [] t = "Exception"         -> "BaseException"
    [] OTHER                   -> "object"

RECURSIVE IsInstance(_, _)
IsInstance(t, cls) ==
  IF t = cls THEN TRUE
  ELSE IF t \in {"object", "None"} THEN FALSE
  ELSE IsInstance(Base(t), cls)

\* what pd.read_csv('throughput.csv') raises for a file of each kind
ReadCsvError(kind) ==
  CASE kind = "absent" ->
         [type |-> "FileNotFoundError",
          str |-> "[Errno 2] No such file or directory: 'throughput.csv'"]
    [] kind = "unreadable" ->
         [type |-> "PermissionError",
          str |-> "[Errno 13] Permission denied: 'throughput.csv'"]
    [] kind = "empty" ->
         [type |-> "EmptyDataError", str |-> "No columns to parse from file"]
    [] kind = "malformed" ->
         [type |-> "ParserError", str |-> "Error tokenizing data"]
    [] OTHER -> NoExc

----------------------------------------------------------------------------
(* The average and its label *)

NaN == [nan |-> TRUE, num |-> 0, den |-> 1]

RECURSIVE Gcd(_, _)
Gcd(a, b) == IF b = 0 THEN a ELSE Gcd(b, a % b)

\* the column df[name] as a sequence, in row order
Column(rows, name) == [i \in 1..Len(rows) |-> rows[i][name]]

\* a sum whose loop stops one element short
RECURSIVE SeriesSum_DropLast(_)
SeriesSum_DropLast(s) ==
  IF Len(s) <= 1 THEN 0 ELSE s[1] + SeriesSum_DropLast(Tail(s))

\* Series.sum(): the values added up in row order
RECURSIVE SeriesSum(_)
SeriesSum(s) == IF s = <<>> THEN 0 ELSE s[1] + SeriesSum(Tail(s))

\* Series.mean(): sum / count, NaN for an empty series
Mean(s) ==
  IF Len(s) = 0 THEN NaN
  ELSE LET t == SeriesSum(s)
           g == Gcd(Len(s), t)
       IN [nan |-> FALSE, num |-> t \div g, den |-> Len(s) \div g]

\* int(x) in place of the .0f format: the fraction is cut off
Format0f_Truncate(x) ==
  IF x.nan THEN [nan |-> TRUE, value |-> 0]
  ELSE [nan |-> FALSE, value |-> x.num \div x.den]

\* f'{x:.0f}' of a non-negative x = num/den: nearest integer, ties to even;
\* 'nan' for NaN
Format0f(x) ==
  IF x.nan THEN [nan |-> TRUE, value |-> 0]
  ELSE LET q == x.num \div x.den
           r == x.num % x.den
       IN [nan |-> FALSE,
           value |-> IF 2 * r < x.den THEN q
                     ELSE IF 2 * r > x.den THEN q + 1
                     ELSE IF q % 2 = 0 THEN q ELSE q + 1]

\* f'Average: {avg_throughput:.0f} msg/10s'
Label(x) ==
  [prefix |-> "Average: ", nan |-> Format0f(x).nan, value |-> Format0f(x).value,
   suffix |-> " msg/10s"]

----------------------------------------------------------------------------
(* Console lines *)

Line(text) == [text |-> text, e |-> ""]

SavedLine == Line("Chart saved as throughput-chart.png")
CompleteLine == Line("Visualization complete!")
NotFoundLine == Line("Error: throughput.csv not found!")
RunFirstLine == Line("   Run the load test client first to generate CSV files.")
\* the message without the {e} placeholder
ErrorLine_NoDescription(e) == [text |-> "Error creating chart: ", e |-> ""]

ErrorLine(e) == [text |-> "Error creating chart: ", e |-> e.str]

----------------------------------------------------------------------------
(* The script *)

Init ==
  /\ csv \in CsvFiles
  /\ out0 \in {"absent", "old"}
  /\ out = out0
  /\ pc = "read_csv"
  /\ df = [cols |-> {}, rows |-> <<>>]
  /\ fig = "none"
  /\ avg_throughput = NaN
  /\ label = Label(NaN)
  /\ console = <<>>
  /\ exc = NoExc
  /\ failed = "none"
  /\ unhandled = FALSE

\* raise e out of create_throughput_chart at step s
Raise(e, s) ==
  /\ exc' = e
  /\ failed' = s
  /\ pc' = "except"

\* line 12: df = pd.read_csv('throughput.csv')
ReadCsv ==
  /\ pc = "read_csv"
  /\ IF ReadCsvError(csv.kind) # NoExc
       THEN /\ Raise(ReadCsvError(csv.kind), "load")
            /\ UNCHANGED df
       ELSE /\ df' = [cols |-> csv.cols, rows |-> csv.rows]
            /\ pc' = "figure"
            /\ UNCHANGED <<exc, failed>>
  /\ UNCHANGED <<csv, out0, out, fig, avg_throughput, label, console, unhandled>>

\* line 15: plt.figure(figsize=(12, 6))
Figure ==
  /\ pc = "figure"
  /\ fig' = "open"
  /\ pc' = "plot"
  /\ UNCHANGED <<csv, out0, out, df, avg_throughput, label, console, exc,
                 failed, unhandled>>

\* the first of the names the frame lacks, in the order the script indexes them
MissingColumn(d, names) ==
  IF names[1] \notin d.cols THEN names[1] ELSE names[2]

\* str(KeyError(name)): the name in quotes
KeyErrorStr(name) ==
  IF name = "time_seconds" THEN "'time_seconds'" ELSE "'messages_per_10_seconds'"

\* lines 18-28: plt.plot(df['time_seconds'], df['messages_per_10_seconds'], ...),
\* then labels, title and grid
Plot ==
  /\ pc = "plot"
  /\ IF Required \subseteq df.cols
       THEN /\ pc' = "mean"
            /\ UNCHANGED <<exc, failed>>
       ELSE LET c == MissingColumn(df, <<"time_seconds", "messages_per_10_seconds">>)
            IN Raise([type |-> "KeyError", str |-> KeyErrorStr(c)], "plot")
  /\ UNCHANGED <<csv, out0, out, df, fig, avg_throughput, label, console, unhandled>>

\* lines 31-36: the mean, the axhline with its label, legend, tight_layout
Average ==
  /\ pc = "mean"
  /\ avg_throughput' = Mean(Column(df.rows, "messages_per_10_seconds"))
  /\ label' = Label(avg_throughput')
  /\ pc' = "savefig"
  /\ UNCHANGED <<csv, out0, out, df, fig, console, exc, failed, unhandled>>

\* what plt.savefig('throughput-chart.png') can do: write the file, or fail
\* before opening it (the path is not writable, or a directory of it is gone),
\* or fail while writing into the file it opened and truncated
SaveOutcomes == {"ok", "PermissionError", "FileNotFoundError", "WriteError"}

SaveError(o) ==
  CASE o = "PermissionError" ->
         [type |-> "PermissionError",
          str |-> "[Errno 13] Permission denied: 'throughput-chart.png'"]
    [] o = "FileNotFoundError" ->
         [type |-> "FileNotFoundError",
          str |-> "[Errno 2] No such file or directory: 'throughput-chart.png'"]
    [] o = "WriteError" ->
         [type |-> "OSError", str |-> "[Errno 28] No space left on device"]
    [] OTHER -> NoExc

\* a save whose errors are swallowed: the function goes on to its print
SaveFig_Swallow ==
  /\ pc = "savefig"
  /\ \E o \in SaveOutcomes :
       /\ out' = IF o = "ok" THEN "new" ELSE out
       /\ failed' = IF o = "ok" THEN failed ELSE "save"
  /\ pc' = "print_saved"
  /\ UNCHANGED <<csv, out0, df, fig, avg_throughput, label, console, exc,
                 unhandled>>

\* line 39: plt.savefig('throughput-chart.png', dpi=300, bbox_inches='tight')
SaveFig ==
  /\ pc = "savefig"
  /\ \E o \in SaveOutcomes :
       IF o = "ok"
         THEN /\ out' = "new"
              /\ pc' = "print_saved"
              /\ UNCHANGED <<exc, failed>>
         ELSE /\ Raise(SaveError(o), "save")
              /\ IF o = "WriteError"
                   \* the file was opened for writing; an image library may
                   \* remove a file it created itself, never one that existed
                   THEN out' \in (IF out = "absent" THEN {"absent", "partial"}
                                                   ELSE {"partial"})
                   ELSE out' = out
  /\ UNCHANGED <<csv, out0, df, fig, avg_throughput, label, console, unhandled>>

\* line 40: print("Chart saved as throughput-chart.png")
PrintSaved ==
  /\ pc = "print_saved"
  /\ console' = Append(console, SavedLine)
  /\ pc' = "close"
  /\ UNCHANGED <<csv, out0, out, df, fig, avg_throughput, label, exc, failed,
                 unhandled>>

\* line 42: plt.close()
Close ==
  /\ pc = "close"
  /\ fig' = "closed"
  /\ pc' = "print_complete"
  /\ UNCHANGED <<csv, out0, out, df, avg_throughput, label, console, exc,
                 failed, unhandled>>

\* line 47: print("Visualization complete!")
PrintComplete ==
  /\ pc = "print_complete"
  /\ console' = Append(console, CompleteLine)
  /\ pc' = "done"
  /\ UNCHANGED <<csv, out0, out, df, fig, avg_throughput, label, exc, failed,
                 unhandled>>

\* the clauses in the other order: except Exception comes first and takes all
Handler_ExceptionFirst(t) ==
  IF IsInstance(t, "Exception") THEN "Exception"
  ELSE IF IsInstance(t, "FileNotFoundError") THEN "FileNotFoundError"
  ELSE "none"

\* the second clause narrowed to except OSError
Handler_OSErrorOnly(t) ==
  IF IsInstance(t, "FileNotFoundError") THEN "FileNotFoundError"
  ELSE IF IsInstance(t, "OSError") THEN "Exception"
  ELSE "none"

\* the except clause of __main__ that takes an exception of class t
Handler(t) ==
  IF IsInstance(t, "FileNotFoundError") THEN "FileNotFoundError"
  ELSE IF IsInstance(t, "Exception") THEN "Exception"
  ELSE "none"

\* lines 48-52: the except clauses of __main__
Except ==
  /\ pc = "except"
  /\ LET h == Handler(exc.type) IN
       /\ console' = CASE h = "FileNotFoundError" ->
                            console \o <<NotFoundLine, RunFirstLine>>
                       [] h = "Exception" -> Append(console, ErrorLine(exc))
                       [] OTHER -> console
       /\ unhandled' = (h = "none")
       /\ exc' = IF h = "none" THEN exc ELSE NoExc
  /\ pc' = "done"
  /\ UNCHANGED <<csv, out0, out, df, fig, avg_throughput, label, failed>>

Next ==
  \/ ReadCsv
  \/ Figure
  \/ Plot
  \/ Average
  \/ SaveFig
  \/ PrintSaved
  \/ Close
  \/ PrintComplete
  \/ Except

Spec == Init /\ [][Next]_vars

----------------------------------------------------------------------------
(* Vocabulary of the properties *)

Printed(l) == \E i \in 1..Len(console) : console[i] = l

\* a success confirmation is on the console
Success == Printed(SavedLine) \/ Printed(CompleteLine)
\* the missing-input diagnostic is on the console
MissingDiag == Printed(NotFoundLine) \/ Printed(RunFirstLine)
\* the other-error diagnostic is on the console
OtherDiag == \E i \in 1..Len(console) : console[i].text = "Error creating chart: "

\* the outcomes the run has emitted
Outcomes ==
  {o \in {"success", "missing", "other"} :
     \/ o = "success" /\ Success
     \/ o = "missing" /\ MissingDiag
     \/ o = "other" /\ OtherDiag}

\* the run is past line 31: the mean has been taken
Averaged ==
  /\ pc \in {"savefig", "print_saved", "close", "print_complete", "done", "except"}
  /\ failed \in {"none", "save"}

\* the run is past line 18: the series has been handed to plt.plot
Plotted == Averaged \/ pc = "mean"

\* the messages_per_10_seconds column of the frame
Messages == Column(df.rows, "messages_per_10_seconds")

\* the sum of s over its index set, taken in no particular order
RECURSIVE SumOver(_, _)
SumOver(s, I) ==
  IF I = {} THEN 0
  ELSE LET i == CHOOSE j \in I : TRUE IN s[i] + SumOver(s, I \ {i})

Total(s) == SumOver(s, DOMAIN s)

Abs(n) == IF n < 0 THEN -n ELSE n

\* the file has the required header and no data row
HeaderOnly == csv.kind = "parsed" /\ Required \subseteq csv.cols /\ csv.rows = <<>>

----------------------------------------------------------------------------
(* Properties *)

\* C1: when throughput.csv does not exist, the run ends with the two-line
\* 'not found' diagnostic and nothing else, and throughput-chart.png keeps the
\* content it had before the run in every state of the run.
C1_MissingInputLeavesOutput ==
  csv.kind = "absent" =>
    /\ out = out0
    /\ ~Success /\ ~OtherDiag
    /\ pc = "done" => console = <<NotFoundLine, RunFirstLine>>

C1_Witness ==
  /\ csv.kind = "absent" /\ pc = "done"
  /\ out0 = "old" /\ out = "old"
  /\ console = <<NotFoundLine, RunFirstLine>>

\* C2: once the figure is acquired it is released on every path out of the
\* function: no run ends with the figure still open.
C2_FigureReleased == pc = "done" => fig # "open"

\* C3: when the file parses but lacks time_seconds or messages_per_10_seconds,
\* the run ends with the other-error diagnostic carrying the error's
\* description, never with the missing-input diagnostic, and the output file is
\* not created or modified.
C3_MissingColumnsIsRenderError ==
  (csv.kind = "parsed" /\ ~(Required \subseteq csv.cols)) =>
    /\ out = out0
    /\ ~MissingDiag /\ ~Success
    /\ pc = "done" =>
         /\ Len(console) = 1
         /\ console[1].text = "Error creating chart: "
         /\ console[1].e \in {KeyErrorStr(c) : c \in Required \ csv.cols}

C3_Witness ==
  /\ csv.kind = "parsed" /\ csv.cols = {"time_seconds", "extra"}
  /\ Len(csv.rows) >= 1
  /\ pc = "done" /\ failed = "plot" /\ OtherDiag
  /\ out0 = "old" /\ out = "old"

\* C4: the missing-input diagnostic is emitted if and only if the input file
\* does not exist; every other failure of parse, render or save, a not-found
\* error of the save step included, is reported by the other-error diagnostic.
C4_BranchesDistinct ==
  pc = "done" =>
    /\ MissingDiag <=> csv.kind = "absent"
    /\ (failed # "none" /\ csv.kind # "absent") => (OtherDiag /\ ~MissingDiag)

\* C5: a success confirmation is on the console only when load, plot and save
\* all completed, and then the file this run wrote exists; a run in which one
\* of them failed has no success confirmation.
C5_NoSuccessOnFailure ==
  /\ Success =>
       /\ failed = "none"
       /\ pc \in {"close", "print_complete", "done"}
       /\ out = "new"
  /\ failed # "none" => ~Success

C5_Witness ==
  /\ pc = "done" /\ Printed(SavedLine) /\ Printed(CompleteLine)
  /\ out0 = "old" /\ out = "new" /\ Len(df.rows) >= 1

\* C6: a run that ends on a failure branch leaves the output file as it was
\* before the run: absent if it was absent, its previous content otherwise.
C6_NoPartialOutput == (pc = "done" /\ failed # "none") => out = out0

\* C7: every failure of create_throughput_chart is caught by __main__: a run
\* that has not ended can take its next step, and a run that has ended has
\* emitted exactly one of the three outcomes with no exception left uncaught.
C7_EveryFailureCaught ==
  /\ pc # "done" => ENABLED Next
  /\ pc = "done" => (Cardinality(Outcomes) = 1 /\ ~unhandled /\ exc = NoExc)
  /\ pc # "done" => Cardinality(Outcomes) <= 1

C7_Witness ==
  /\ pc = "done" /\ failed = "plot" /\ Outcomes = {"other"} /\ ~unhandled

\* C8: for N >= 1 rows the average of the overlay line is the arithmetic mean
\* sum/N of the column (for N = 1 the row's own value), and every permutation
\* of the rows gives the same average.
C8_MeanIsArithmeticMean ==
  (Averaged /\ Len(df.rows) >= 1) =>
    LET s == Messages
        N == Len(s)
    IN /\ ~avg_throughput.nan
       /\ avg_throughput.num * N = Total(s) * avg_throughput.den
       /\ N = 1 => (avg_throughput.num = s[1] /\ avg_throughput.den = 1)
       /\ \A p \in Permutations(1..N) :
            Mean([i \in 1..N |-> s[p[i]]]) = avg_throughput

C8_Witness ==
  /\ Averaged /\ Len(df.rows) = 3
  /\ Messages = <<300, 1, 100>>
  /\ avg_throughput = [nan |-> FALSE, num |-> 401, den |-> 3]

\* C9: for a non-empty series of non-negative integer counts the label is
\* 'Average: V msg/10s' with V an integer at most 1/2 from the mean,
\* 2*|V*N - sum| <= N; for rows (0,100),(10,200),(20,300) V is 200.
C9_LabelIsRoundedMean ==
  (Averaged /\ Len(df.rows) >= 1) =>
    LET s == Messages
        N == Len(s)
    IN /\ label.prefix = "Average: " /\ label.suffix = " msg/10s"
       /\ ~label.nan
       /\ 2 * Abs(label.value * N - Total(s)) <= N
       /\ df.rows = RowsOf(<<100, 200, 300>>, df.cols) => label.value = 200

C9_Witness ==
  /\ Averaged
  /\ df.rows = RowsOf(<<100, 200, 300>>, Required)
  /\ label = [prefix |-> "Average: ", nan |-> FALSE, value |-> 200,
              suffix |-> " msg/10s"]

\* a mean with a fraction above 1/2 was rounded up
C9_WitnessRoundsUp ==
  /\ Averaged /\ Messages = <<1, 2, 2>> /\ label.value = 2

\* C10: the series that reaches the plotting, averaging and save steps is
\* never empty: for a file with the required header and no data row the run
\* neither writes the output file nor emits a success confirmation.
C10_SeriesNonEmpty ==
  /\ Plotted => Len(df.rows) >= 1
  /\ HeaderOnly => (out = out0 /\ ~Success)

====
